---- MODULE Spec2Model ----
(***************************************************************************)
(* Member handlers of Discordeno (src/handlers/member.ts): the four member *)
(* mutations addRole, removeRole, kick, editMember with their hierarchy    *)
(* and permission pre-checks, and sendDirectMessage with its get-or-create *)
(* use of the channel cache.                                               *)
(*                                                                         *)
(* One guild, one bot, one target member.  The guild cache is written by   *)
(* the gateway event stream; the handlers only read it.  A handler is cut  *)
(* into one action per synchronous segment: a segment runs from one await  *)
(* to the next, and gateway events may be handled between two segments.    *)
(***************************************************************************)
EXTENDS Integers, Sequences, FiniteSets, TLC

\* Role positions range over 1..MaxPos.
MaxPos == 2

\* Calls of sendDirectMessage that may be in flight together.
MaxCallers == 2

\* The longest nickname editMember accepts.
NICK_MAX == 32

Roles == {"r1", "r2"}
Agents == {"bot", "member"}
Permissions ==
  {"MANAGE_ROLES", "KICK_MEMBERS", "MANAGE_NICKNAMES", "MUTE_MEMBERS", "DEAFEN_MEMBERS"}

\* Lengths of the nicknames tried: "", "ok", a 32 and a 33 character string.
NickLengths == {0, 2, NICK_MAX, NICK_MAX + 1}

VARIABLES
  \* ---- guild cache (written by the event stream only)
  guildCached,        \* the guild is in the cache
  rolePosition,       \* role id -> position
  memberRoles,        \* agent -> set of role ids
  botPerms,           \* permissions the bot holds in the guild
  \* ---- the mutation call in progress
  pc,                 \* "idle", "addRole", "removeRole", "kick1", "kick2", "done"
  op,                 \* the handler called
  roleID,             \* argument of addRole / removeRole
  botsHighestRole,    \* local of addRole / removeRole / kick
  membersHighestRole, \* local of kick
  options,            \* argument of editMember
  result,             \* what the call did: error thrown, botHasPermission calls, requests
  coherent,           \* some cache state since the call began lets the whole call pass
  \* ---- channel cache and remote side of direct messages
  channels,           \* cache key -> id of the channel stored under it, or "none"
  remoteDM,           \* users whose DM channel exists on the remote side
  pendingEvents,      \* channel ids whose CHANNEL_CREATE event is not delivered yet
  \* ---- the sendDirectMessage calls in progress
  dmpc,               \* caller -> "idle", "get", "post", "response", "create", "done"
  memberID,           \* caller -> argument of sendDirectMessage
  dmChannel,          \* caller -> local dmChannel (a channel id or "none")
  missed,             \* caller -> the lookup of this call found nothing
  posts,              \* caller -> creation requests issued by this call
  failed,             \* caller -> the creation request of this call was rejected
  sentTo,             \* caller -> channel ids sendMessage was called with, in order
  resolved,           \* users for which a call has completed with a message sent
  sequential,         \* caller -> this call started after a completed one, nothing else in flight
  rejected,           \* users for whom a creation request has failed
  retry               \* caller -> this call started after such a failure, the user not yet resolved

guildVars == <<guildCached, rolePosition, memberRoles, botPerms>>
callLocals == <<pc, op, roleID, botsHighestRole, membersHighestRole, options, result>>
callVars == <<callLocals, coherent>>
cacheVars == <<channels, remoteDM, pendingEvents>>
dmVars == <<dmpc, memberID, dmChannel, missed, posts, failed, sentTo, resolved, sequential, rejected, retry>>
vars == <<guildVars, callVars, cacheVars, dmVars>>

-----------------------------------------------------------------------------
(* Values *)

\* highestRole resolves to a role, or to undefined.
NoRole == [id |-> "none", position |-> 0]
Role(r) == [id |-> r, position |-> rolePosition[r]]

\* options.nick: a string of some length, or not given.
NoNick == [given |-> FALSE, length |-> 0]
Nick(n) == [given |-> TRUE, length |-> n]

\* EditMemberOptions: roles is undefined, [] or a non-empty list; mute and
\* deaf are undefined, true or false.
NoOptions == [nick |-> NoNick, roles |-> "undefined", mute |-> "undefined", deaf |-> "undefined"]
EditMemberOptions ==
  [nick : {NoNick} \cup {Nick(n) : n \in NickLengths},
   roles : {"undefined", "[]", "[r1]"},
   mute : {"undefined", "true", "false"},
   deaf : {"undefined", "true", "false"}]

\* JavaScript truthiness, as the conditions of editMember use it: the empty
\* string, false and undefined are falsy, every array (also []) is truthy.
NickTruthy(nick) == nick.given /\ nick.length > 0
RolesTruthy(roles) == roles # "undefined"
FlagTruthy(flag) == flag = "true"

NoResult == [error |-> "none", checks |-> <<>>, requests |-> <<>>]
Thrown(error, checks) == [error |-> error, checks |-> checks, requests |-> <<>>]
Issued(checks, request) == [error |-> "none", checks |-> checks, requests |-> <<request>>]
Request(method, resource, role, body) ==
  [method |-> method, resource |-> resource, role |-> role, body |-> body]

-----------------------------------------------------------------------------
(* utils/permissions.ts *)

\* The bot holds every permission asked for; false when the guild is not cached.
botHasPermission(permissions) == guildCached /\ permissions \subseteq botPerms

\* The roles highestRole(guildID, agent) can resolve to: a role of maximal
\* position among the agent's roles, undefined without roles or guild.
highestRole(agent) ==
  IF ~guildCached \/ memberRoles[agent] = {}
  THEN {NoRole}
  ELSE {Role(r) : r \in {x \in memberRoles[agent] :
          \A y \in memberRoles[agent] : rolePosition[y] <= rolePosition[x]}}

\* Strict comparison of the cached positions of two roles.
higherRolePosition(id, otherID) ==
  guildCached /\ rolePosition[id] > rolePosition[otherID]

-----------------------------------------------------------------------------
(* handlers/member.ts: the synchronous tail of each mutation *)

\* addRole without its permission check.
addRole_NoPermissionCheck(bh, role) ==
  IF bh.id # "none" /\ ~higherRolePosition(bh.id, role)
  THEN Thrown("BOTS_HIGHEST_ROLE_TOO_LOW", <<>>)
  ELSE Issued(<<>>, Request("PUT", "GUILD_MEMBER_ROLE", role, NoOptions))

\* addRole throwing the same error for both of its checks.
addRole_OneError(bh, role) ==
  IF bh.id # "none" /\ ~higherRolePosition(bh.id, role)
  THEN Thrown("BOTS_HIGHEST_ROLE_TOO_LOW", <<>>)
  ELSE IF ~botHasPermission({"MANAGE_ROLES"})
  THEN Thrown("BOTS_HIGHEST_ROLE_TOO_LOW", <<"MANAGE_ROLES">>)
  ELSE Issued(<<"MANAGE_ROLES">>, Request("PUT", "GUILD_MEMBER_ROLE", role, NoOptions))

addRole(bh, role) ==
  IF bh.id # "none" /\ ~higherRolePosition(bh.id, role)
  THEN Thrown("BOTS_HIGHEST_ROLE_TOO_LOW", <<>>)
  ELSE IF ~botHasPermission({"MANAGE_ROLES"})
  THEN Thrown("MISSING_MANAGE_ROLES", <<"MANAGE_ROLES">>)
  ELSE Issued(<<"MANAGE_ROLES">>, Request("PUT", "GUILD_MEMBER_ROLE", role, NoOptions))

\* removeRole without the comparison of the roles.
removeRole_NoHierarchyCheck(bh, role) ==
  IF ~botHasPermission({"MANAGE_ROLES"})
  THEN Thrown("MISSING_MANAGE_ROLES", <<"MANAGE_ROLES">>)
  ELSE Issued(<<"MANAGE_ROLES">>, Request("DELETE", "GUILD_MEMBER_ROLE", role, NoOptions))

\* removeRole that sends its request before it asks for the permission.
removeRole_RequestBeforeCheck(bh, role) ==
  IF bh.id # "none" /\ ~higherRolePosition(bh.id, role)
  THEN Thrown("BOTS_HIGHEST_ROLE_TOO_LOW", <<>>)
  ELSE [error |-> IF botHasPermission({"MANAGE_ROLES"}) THEN "none" ELSE "MISSING_MANAGE_ROLES",
        checks |-> <<"MANAGE_ROLES">>,
        requests |-> <<Request("DELETE", "GUILD_MEMBER_ROLE", role, NoOptions)>>]

removeRole(bh, role) ==
  IF bh.id # "none" /\ ~higherRolePosition(bh.id, role)
  THEN Thrown("BOTS_HIGHEST_ROLE_TOO_LOW", <<>>)
  ELSE IF ~botHasPermission({"MANAGE_ROLES"})
  THEN Thrown("MISSING_MANAGE_ROLES", <<"MANAGE_ROLES">>)
  ELSE Issued(<<"MANAGE_ROLES">>, Request("DELETE", "GUILD_MEMBER_ROLE", role, NoOptions))

\* kick comparing with < where the code compares with <=.
kick_StrictCompare(bh, mh) ==
  IF bh.id # "none" /\ mh.id # "none" /\ bh.position < mh.position
  THEN Thrown("BOTS_HIGHEST_ROLE_TOO_LOW", <<>>)
  ELSE IF ~botHasPermission({"KICK_MEMBERS"})
  THEN Thrown("MISSING_KICK_MEMBERS", <<"KICK_MEMBERS">>)
  ELSE Issued(<<"KICK_MEMBERS">>, Request("DELETE", "GUILD_MEMBER", "none", NoOptions))

\* kick asking for KICK_MEMBERS before it compares the roles.
kick_PermissionFirst(bh, mh) ==
  IF ~botHasPermission({"KICK_MEMBERS"})
  THEN Thrown("MISSING_KICK_MEMBERS", <<"KICK_MEMBERS">>)
  ELSE IF bh.id # "none" /\ mh.id # "none" /\ bh.position <= mh.position
  THEN Thrown("BOTS_HIGHEST_ROLE_TOO_LOW", <<"KICK_MEMBERS">>)
  ELSE Issued(<<"KICK_MEMBERS">>, Request("DELETE", "GUILD_MEMBER", "none", NoOptions))

kick(bh, mh) ==
  IF bh.id # "none" /\ mh.id # "none" /\ bh.position <= mh.position
  THEN Thrown("BOTS_HIGHEST_ROLE_TOO_LOW", <<>>)
  ELSE IF ~botHasPermission({"KICK_MEMBERS"})
  THEN Thrown("MISSING_KICK_MEMBERS", <<"KICK_MEMBERS">>)
  ELSE Issued(<<"KICK_MEMBERS">>, Request("DELETE", "GUILD_MEMBER", "none", NoOptions))

\* editMember asking for MANAGE_NICKNAMES before it looks at the length.
editMember_PermissionFirst(o) ==
  IF NickTruthy(o.nick) /\ ~botHasPermission({"MANAGE_NICKNAMES"})
  THEN Thrown("MISSING_MANAGE_NICKNAMES", <<"MANAGE_NICKNAMES">>)
  ELSE IF NickTruthy(o.nick) /\ o.nick.length > NICK_MAX
  THEN Thrown("NICKNAMES_MAX_LENGTH", <<"MANAGE_NICKNAMES">>)
  ELSE IF RolesTruthy(o.roles) /\ ~botHasPermission({"MANAGE_ROLES"})
  THEN Thrown("MISSING_MANAGE_ROLES", <<"MANAGE_ROLES">>)
  ELSE IF FlagTruthy(o.mute) /\ ~botHasPermission({"MUTE_MEMBERS"})
  THEN Thrown("MISSING_MUTE_MEMBERS", <<"MUTE_MEMBERS">>)
  ELSE IF FlagTruthy(o.deaf) /\ ~botHasPermission({"DEAFEN_MEMBERS"})
  THEN Thrown("MISSING_DEAFEN_MEMBERS", <<"DEAFEN_MEMBERS">>)
  ELSE Issued(<<>>, Request("PATCH", "GUILD_MEMBER", "none", o))

\* editMember patching the fields that passed and leaving out a mute or deaf
\* flag the bot may not set, instead of throwing.
editMember_PartialPatch(o) ==
  IF NickTruthy(o.nick) /\ o.nick.length > NICK_MAX
  THEN Thrown("NICKNAMES_MAX_LENGTH", <<>>)
  ELSE IF NickTruthy(o.nick) /\ ~botHasPermission({"MANAGE_NICKNAMES"})
  THEN Thrown("MISSING_MANAGE_NICKNAMES", <<"MANAGE_NICKNAMES">>)
  ELSE IF RolesTruthy(o.roles) /\ ~botHasPermission({"MANAGE_ROLES"})
  THEN Thrown("MISSING_MANAGE_ROLES", <<"MANAGE_ROLES">>)
  ELSE Issued(<<>>, Request("PATCH", "GUILD_MEMBER", "none",
         [o EXCEPT !.mute = IF FlagTruthy(o.mute) /\ ~botHasPermission({"MUTE_MEMBERS"})
                             THEN "undefined" ELSE o.mute,
                   !.deaf = IF FlagTruthy(o.deaf) /\ ~botHasPermission({"DEAFEN_MEMBERS"})
                             THEN "undefined" ELSE o.deaf]))

\* editMember asking for all four permissions, whatever fields are given.
editMember_ChecksEveryPermission(o) ==
  LET all == <<"MANAGE_NICKNAMES", "MANAGE_ROLES", "MUTE_MEMBERS", "DEAFEN_MEMBERS">>
  IN IF NickTruthy(o.nick) /\ o.nick.length > NICK_MAX
     THEN Thrown("NICKNAMES_MAX_LENGTH", <<>>)
     ELSE IF ~botHasPermission({"MANAGE_NICKNAMES"})
     THEN Thrown("MISSING_MANAGE_NICKNAMES", SubSeq(all, 1, 1))
     ELSE IF ~botHasPermission({"MANAGE_ROLES"})
     THEN Thrown("MISSING_MANAGE_ROLES", SubSeq(all, 1, 2))
     ELSE IF ~botHasPermission({"MUTE_MEMBERS"})
     THEN Thrown("MISSING_MUTE_MEMBERS", SubSeq(all, 1, 3))
     ELSE IF ~botHasPermission({"DEAFEN_MEMBERS"})
     THEN Thrown("MISSING_DEAFEN_MEMBERS", all)
     ELSE Issued(all, Request("PATCH", "GUILD_MEMBER", "none", o))

editMember(o) ==
  LET nickChecks == IF NickTruthy(o.nick) THEN <<"MANAGE_NICKNAMES">> ELSE <<>>
      rolesChecks == nickChecks \o (IF RolesTruthy(o.roles) THEN <<"MANAGE_ROLES">> ELSE <<>>)
      muteChecks == rolesChecks \o (IF FlagTruthy(o.mute) THEN <<"MUTE_MEMBERS">> ELSE <<>>)
      deafChecks == muteChecks \o (IF FlagTruthy(o.deaf) THEN <<"DEAFEN_MEMBERS">> ELSE <<>>)
  IN IF NickTruthy(o.nick) /\ o.nick.length > NICK_MAX
     THEN Thrown("NICKNAMES_MAX_LENGTH", <<>>)
     ELSE IF NickTruthy(o.nick) /\ ~botHasPermission({"MANAGE_NICKNAMES"})
     THEN Thrown("MISSING_MANAGE_NICKNAMES", nickChecks)
     ELSE IF RolesTruthy(o.roles) /\ ~botHasPermission({"MANAGE_ROLES"})
     THEN Thrown("MISSING_MANAGE_ROLES", rolesChecks)
     ELSE IF FlagTruthy(o.mute) /\ ~botHasPermission({"MUTE_MEMBERS"})
     THEN Thrown("MISSING_MUTE_MEMBERS", muteChecks)
     ELSE IF FlagTruthy(o.deaf) /\ ~botHasPermission({"DEAFEN_MEMBERS"})
     THEN Thrown("MISSING_DEAFEN_MEMBERS", deafChecks)
     ELSE Issued(deafChecks, Request("PATCH", "GUILD_MEMBER", "none", o))

\* The call (of addRole, removeRole or kick) would issue its request if it
\* ran from its first read to its last check on the cache as it is now.
PassesNow(o, role) ==
  CASE o = "addRole" ->
         \E bh \in highestRole("bot") : addRole(bh, role).requests # <<>>
    [] o = "removeRole" ->
         \E bh \in highestRole("bot") : removeRole(bh, role).requests # <<>>
    [] o = "kick" ->
         \E bh \in highestRole("bot"), mh \in highestRole("member") :
           kick(bh, mh).requests # <<>>
    [] OTHER -> FALSE

-----------------------------------------------------------------------------
(* Initial state: nothing cached, no call in progress *)

Users == {"u1", "u2"}
Callers == 1..MaxCallers
\* The DM channel the remote side keeps for a user.
ChannelOf(u) == IF u = "u1" THEN "c1" ELSE "c2"
ChannelIDs == {ChannelOf(u) : u \in Users}
Keys == Users \cup ChannelIDs

Init ==
  /\ guildCached = FALSE
  /\ rolePosition = [r \in Roles |-> 1]
  /\ memberRoles = [a \in Agents |-> {}]
  /\ botPerms = {}
  /\ pc = "idle"
  /\ op = "none"
  /\ roleID = "none"
  /\ botsHighestRole = NoRole
  /\ membersHighestRole = NoRole
  /\ options = NoOptions
  /\ result = NoResult
  /\ coherent = FALSE
  /\ channels = [k \in Keys |-> "none"]
  /\ remoteDM = {}
  /\ pendingEvents = {}
  /\ dmpc = [c \in Callers |-> "idle"]
  /\ memberID = [c \in Callers |-> "none"]
  /\ dmChannel = [c \in Callers |-> "none"]
  /\ missed = [c \in Callers |-> FALSE]
  /\ posts = [c \in Callers |-> 0]
  /\ failed = [c \in Callers |-> FALSE]
  /\ sentTo = [c \in Callers |-> <<>>]
  /\ resolved = {}
  /\ sequential = [c \in Callers |-> FALSE]
  /\ rejected = {}
  /\ retry = [c \in Callers |-> FALSE]

-----------------------------------------------------------------------------
(* Gateway events on the guild cache.  A settled call is observed by its   *)
(* caller in the same run of the event loop, before the next gateway event *)
(* is handled: no event is taken in "done".                                *)

GuildCreate ==
  /\ pc # "done"
  /\ ~guildCached
  /\ guildCached' = TRUE
  /\ rolePosition' \in [Roles -> 1..MaxPos]
  /\ memberRoles' \in [Agents -> SUBSET Roles]
  /\ botPerms' \in SUBSET Permissions
  /\ UNCHANGED <<callLocals, cacheVars, dmVars>>
  /\ coherent' = (coherent \/ PassesNow(op, roleID)')

GuildDelete ==
  /\ pc # "done"
  /\ guildCached
  /\ guildCached' = FALSE
  /\ rolePosition' = [r \in Roles |-> 1]
  /\ memberRoles' = [a \in Agents |-> {}]
  /\ botPerms' = {}
  /\ UNCHANGED <<callLocals, cacheVars, dmVars>>
  /\ coherent' = (coherent \/ PassesNow(op, roleID)')

\* The roles of the bot or of the member change.
GuildMemberUpdate ==
  /\ pc # "done"
  /\ guildCached
  /\ \E a \in Agents, rs \in SUBSET Roles :
       /\ rs # memberRoles[a]
       /\ memberRoles' = [memberRoles EXCEPT ![a] = rs]
  /\ UNCHANGED <<guildCached, rolePosition, botPerms, callLocals, cacheVars, dmVars>>
  /\ coherent' = (coherent \/ PassesNow(op, roleID)')

\* A role is moved, or gains or loses a permission.
GuildRoleUpdate ==
  /\ pc # "done"
  /\ guildCached
  /\ \/ \E r \in Roles, p \in 1..MaxPos :
          /\ p # rolePosition[r]
          /\ rolePosition' = [rolePosition EXCEPT ![r] = p]
          /\ UNCHANGED botPerms
     \/ \E p \in Permissions :
          /\ botPerms' = IF p \in botPerms THEN botPerms \ {p} ELSE botPerms \cup {p}
          /\ UNCHANGED rolePosition
  /\ UNCHANGED <<guildCached, memberRoles, callLocals, cacheVars, dmVars>>
  /\ coherent' = (coherent \/ PassesNow(op, roleID)')

-----------------------------------------------------------------------------
(* The mutation calls *)

\* addRole up to `await highestRole(guildID, botID)`.
AddRoleCall ==
  /\ pc = "idle"
  /\ \E r \in Roles, bh \in highestRole("bot") :
       /\ roleID' = r
       /\ botsHighestRole' = bh
  /\ pc' = "addRole"
  /\ op' = "addRole"
  /\ coherent' = PassesNow(op', roleID')
  /\ UNCHANGED <<membersHighestRole, options, result, guildVars, cacheVars, dmVars>>

\* addRole after the await: both checks and the PUT.
AddRoleResume ==
  /\ pc = "addRole"
  /\ result' = addRole(botsHighestRole, roleID)
  /\ pc' = "done"
  /\ UNCHANGED <<op, roleID, botsHighestRole, membersHighestRole, options, coherent,
                 guildVars, cacheVars, dmVars>>

\* removeRole up to `await highestRole(guildID, botID)`.
RemoveRoleCall ==
  /\ pc = "idle"
  /\ \E r \in Roles, bh \in highestRole("bot") :
       /\ roleID' = r
       /\ botsHighestRole' = bh
  /\ pc' = "removeRole"
  /\ op' = "removeRole"
  /\ coherent' = PassesNow(op', roleID')
  /\ UNCHANGED <<membersHighestRole, options, result, guildVars, cacheVars, dmVars>>

\* removeRole after the await: both checks and the DELETE.
RemoveRoleResume ==
  /\ pc = "removeRole"
  /\ result' = removeRole(botsHighestRole, roleID)
  /\ pc' = "done"
  /\ UNCHANGED <<op, roleID, botsHighestRole, membersHighestRole, options, coherent,
                 guildVars, cacheVars, dmVars>>

\* kick up to `await highestRole(guildID, botID)`.
KickCall ==
  /\ pc = "idle"
  /\ botsHighestRole' \in highestRole("bot")
  /\ pc' = "kick1"
  /\ op' = "kick"
  /\ coherent' = PassesNow(op', roleID)
  /\ UNCHANGED <<roleID, membersHighestRole, options, result, guildVars, cacheVars, dmVars>>

\* kick from the first await to `await highestRole(guildID, memberID)`.
KickSecondRead ==
  /\ pc = "kick1"
  /\ membersHighestRole' \in highestRole("member")
  /\ pc' = "kick2"
  /\ UNCHANGED <<op, roleID, botsHighestRole, options, result, coherent,
                 guildVars, cacheVars, dmVars>>

\* kick that also drops the member from the cached guild.
KickResume_EvictsMember ==
  /\ pc = "kick2"
  /\ result' = kick(botsHighestRole, membersHighestRole)
  /\ memberRoles' = IF result'.requests # <<>>
                    THEN [memberRoles EXCEPT !["member"] = {}]
                    ELSE memberRoles
  /\ pc' = "done"
  /\ UNCHANGED <<op, roleID, botsHighestRole, membersHighestRole, options, coherent,
                 guildCached, rolePosition, botPerms, cacheVars, dmVars>>

\* kick after the second await: both checks and the DELETE.
KickResume ==
  /\ pc = "kick2"
  /\ result' = kick(botsHighestRole, membersHighestRole)
  /\ pc' = "done"
  /\ UNCHANGED <<op, roleID, botsHighestRole, membersHighestRole, options, coherent,
                 guildVars, cacheVars, dmVars>>

\* editMember is not async: the whole call is one segment.
EditMember ==
  /\ pc = "idle"
  /\ \E o \in EditMemberOptions :
       /\ options' = o
       /\ result' = editMember(o)
  /\ pc' = "done"
  /\ op' = "editMember"
  /\ UNCHANGED <<coherent, roleID, botsHighestRole, membersHighestRole, guildVars, cacheVars, dmVars>>

\* The caller has seen the outcome; the next call may start.
Return ==
  /\ pc = "done"
  /\ pc' = "idle"
  /\ op' = "none"
  /\ roleID' = "none"
  /\ botsHighestRole' = NoRole
  /\ membersHighestRole' = NoRole
  /\ options' = NoOptions
  /\ result' = NoResult
  /\ coherent' = FALSE
  /\ UNCHANGED <<guildVars, cacheVars, dmVars>>

Next ==
  \/ GuildCreate
  \/ GuildDelete
  \/ GuildMemberUpdate
  \/ GuildRoleUpdate
  \/ AddRoleCall
  \/ AddRoleResume
  \/ RemoveRoleCall
  \/ RemoveRoleResume
  \/ KickCall
  \/ KickSecondRead
  \/ KickResume
  \/ EditMember
  \/ Return

Spec == Init /\ [][Next]_vars

-----------------------------------------------------------------------------
(* The remote side and the gateway events on the channel cache.  The       *)
(* CHANNEL_CREATE handler stores the channel under the channel's own id.   *)
(* Handlers of the event loop are not run between a call settling and its  *)
(* caller seeing the outcome.                                              *)

NoneSettled == \A c \in Callers : dmpc[c] # "done"

\* The user opens the DM channel from their side.
UserOpensDM(u) ==
  /\ u \notin remoteDM
  /\ remoteDM' = remoteDM \cup {u}
  /\ pendingEvents' = pendingEvents \cup {ChannelOf(u)}
  /\ UNCHANGED <<channels, guildVars, callVars, dmVars>>

\* The gateway delivers CHANNEL_CREATE.
ChannelCreateEvent(id) ==
  /\ NoneSettled
  /\ id \in pendingEvents
  /\ channels' = [channels EXCEPT ![id] = id]
  /\ pendingEvents' = pendingEvents \ {id}
  /\ UNCHANGED <<remoteDM, guildVars, callVars, dmVars>>

\* The remote side serves POST USER_CREATE_DM: it creates the channel, or
\* finds the one it has, and answers with it.
RemoteCreateDM(c) ==
  /\ dmpc[c] = "post"
  /\ dmpc' = [dmpc EXCEPT ![c] = "response"]
  /\ remoteDM' = remoteDM \cup {memberID[c]}
  /\ pendingEvents' = IF memberID[c] \in remoteDM
                      THEN pendingEvents
                      ELSE pendingEvents \cup {ChannelOf(memberID[c])}
  /\ UNCHANGED <<channels, memberID, dmChannel, missed, posts, failed, sentTo, resolved,
                 sequential, rejected, retry, guildVars, callVars>>

\* The remote side, or the transport, rejects the POST.
RemoteRejectDM(c) ==
  /\ dmpc[c] = "post"
  /\ dmpc' = [dmpc EXCEPT ![c] = "response"]
  /\ failed' = [failed EXCEPT ![c] = TRUE]
  /\ UNCHANGED <<cacheVars, memberID, dmChannel, missed, posts, sentTo, resolved,
                 sequential, rejected, retry, guildVars, callVars>>

-----------------------------------------------------------------------------
(* sendDirectMessage *)

\* sendDirectMessage up to `await cacheHandlers.get("channels", memberID)`.
DMCall(c, u) ==
  /\ dmpc[c] = "idle"
  /\ dmpc' = [dmpc EXCEPT ![c] = "get"]
  /\ memberID' = [memberID EXCEPT ![c] = u]
  /\ dmChannel' = [dmChannel EXCEPT ![c] = channels[u]]
  /\ missed' = [missed EXCEPT ![c] = channels[u] = "none"]
  /\ sequential' = [sequential EXCEPT ![c] =
                      u \in resolved /\ \A d \in Callers \ {c} : dmpc[d] = "idle"]
  /\ retry' = [retry EXCEPT ![c] = u \in rejected \ resolved]
  /\ UNCHANGED <<posts, failed, sentTo, resolved, rejected, cacheVars, guildVars, callVars>>

\* A caller that joins the creation request another call has in flight for
\* the same user instead of issuing its own.
DMAfterGet_SingleFlight(c) ==
  /\ dmpc[c] = "get"
  /\ IF dmChannel[c] # "none"
     THEN /\ sentTo' = [sentTo EXCEPT ![c] = Append(@, dmChannel[c])]
          /\ resolved' = resolved \cup {memberID[c]}
          /\ dmpc' = [dmpc EXCEPT ![c] = "done"]
          /\ UNCHANGED posts
     ELSE /\ posts' = [posts EXCEPT ![c] =
                         IF \E d \in Callers \ {c} :
                              memberID[d] = memberID[c] /\ dmpc[d] \in {"post", "response"}
                         THEN @ ELSE @ + 1]
          /\ dmpc' = [dmpc EXCEPT ![c] = "post"]
          /\ UNCHANGED <<sentTo, resolved>>
  /\ UNCHANGED <<memberID, dmChannel, missed, failed, sequential, rejected, retry,
                 cacheVars, guildVars, callVars>>

\* A caller that asks the remote side for the channel whatever the lookup
\* found.
DMAfterGet_AlwaysCreates(c) ==
  /\ dmpc[c] = "get"
  /\ posts' = [posts EXCEPT ![c] = @ + 1]
  /\ dmpc' = [dmpc EXCEPT ![c] = "post"]
  /\ UNCHANGED <<sentTo, resolved, memberID, dmChannel, missed, failed, sequential, rejected, retry,
                 cacheVars, guildVars, callVars>>

\* From the lookup to the next await: on a hit sendMessage(dmChannel.id), on
\* a miss RequestManager.post(USER_CREATE_DM).
DMAfterGet(c) ==
  /\ dmpc[c] = "get"
  /\ IF dmChannel[c] # "none"
     THEN /\ sentTo' = [sentTo EXCEPT ![c] = Append(@, dmChannel[c])]
          /\ resolved' = resolved \cup {memberID[c]}
          /\ dmpc' = [dmpc EXCEPT ![c] = "done"]
          /\ UNCHANGED posts
     ELSE /\ posts' = [posts EXCEPT ![c] = @ + 1]
          /\ dmpc' = [dmpc EXCEPT ![c] = "post"]
          /\ UNCHANGED <<sentTo, resolved>>
  /\ UNCHANGED <<memberID, dmChannel, missed, failed, sequential, rejected, retry,
                 cacheVars, guildVars, callVars>>

\* A caller that goes on to the cache writes whatever the answer was.
DMResponse_IgnoresFailure(c) ==
  /\ NoneSettled
  /\ dmpc[c] = "response"
  /\ rejected' = IF failed[c] THEN rejected \cup {memberID[c]} ELSE rejected
  /\ channels' = [channels EXCEPT ![ChannelOf(memberID[c])] = "none"]
  /\ dmpc' = [dmpc EXCEPT ![c] = "create"]
  /\ UNCHANGED <<remoteDM, pendingEvents, memberID, dmChannel, missed, posts, failed,
                 sentTo, resolved, sequential, retry, guildVars, callVars>>

\* The answer to the POST arrives: a rejection is thrown on; otherwise
\* cacheHandlers.delete("channels", dmChannelData.id), up to
\* `await structures.createChannel(dmChannelData)`.
DMResponse(c) ==
  /\ NoneSettled
  /\ dmpc[c] = "response"
  /\ IF failed[c]
     THEN /\ dmpc' = [dmpc EXCEPT ![c] = "done"]
          /\ rejected' = rejected \cup {memberID[c]}
          /\ UNCHANGED channels
     ELSE /\ channels' = [channels EXCEPT ![ChannelOf(memberID[c])] = "none"]
          /\ dmpc' = [dmpc EXCEPT ![c] = "create"]
          /\ UNCHANGED rejected
  /\ UNCHANGED <<remoteDM, pendingEvents, memberID, dmChannel, missed, posts, failed,
                 sentTo, resolved, sequential, retry, guildVars, callVars>>

\* A caller that stores the channel under the channel's id.
DMCreateDone_KeyedByChannel(c) ==
  /\ dmpc[c] = "create"
  /\ channels' = [channels EXCEPT ![ChannelOf(memberID[c])] = ChannelOf(memberID[c])]
  /\ dmChannel' = [dmChannel EXCEPT ![c] = ChannelOf(memberID[c])]
  /\ sentTo' = [sentTo EXCEPT ![c] = Append(@, ChannelOf(memberID[c]))]
  /\ resolved' = resolved \cup {memberID[c]}
  /\ dmpc' = [dmpc EXCEPT ![c] = "done"]
  /\ UNCHANGED <<remoteDM, pendingEvents, memberID, missed, posts, failed, sequential,
                 rejected, retry,                 guildVars, callVars>>

\* A caller that sends to the id it was called with.
DMCreateDone_SendsToUser(c) ==
  /\ dmpc[c] = "create"
  /\ channels' = [channels EXCEPT ![memberID[c]] = ChannelOf(memberID[c])]
  /\ dmChannel' = [dmChannel EXCEPT ![c] = ChannelOf(memberID[c])]
  /\ sentTo' = [sentTo EXCEPT ![c] = Append(@, memberID[c])]
  /\ resolved' = resolved \cup {memberID[c]}
  /\ dmpc' = [dmpc EXCEPT ![c] = "done"]
  /\ UNCHANGED <<remoteDM, pendingEvents, memberID, missed, posts, failed, sequential,
                 rejected, retry, guildVars, callVars>>

\* After createChannel: cacheHandlers.set("channels", memberID, channel),
\* dmChannel = channel, sendMessage(dmChannel.id).
DMCreateDone(c) ==
  /\ dmpc[c] = "create"
  /\ channels' = [channels EXCEPT ![memberID[c]] = ChannelOf(memberID[c])]
  /\ dmChannel' = [dmChannel EXCEPT ![c] = ChannelOf(memberID[c])]
  /\ sentTo' = [sentTo EXCEPT ![c] = Append(@, ChannelOf(memberID[c]))]
  /\ resolved' = resolved \cup {memberID[c]}
  /\ dmpc' = [dmpc EXCEPT ![c] = "done"]
  /\ UNCHANGED <<remoteDM, pendingEvents, memberID, missed, posts, failed, sequential,
                 rejected, retry,                 guildVars, callVars>>

\* The caller has seen the outcome; its next call may start.
DMReturn(c) ==
  /\ dmpc[c] = "done"
  /\ dmpc' = [dmpc EXCEPT ![c] = "idle"]
  /\ memberID' = [memberID EXCEPT ![c] = "none"]
  /\ dmChannel' = [dmChannel EXCEPT ![c] = "none"]
  /\ missed' = [missed EXCEPT ![c] = FALSE]
  /\ posts' = [posts EXCEPT ![c] = 0]
  /\ failed' = [failed EXCEPT ![c] = FALSE]
  /\ sentTo' = [sentTo EXCEPT ![c] = <<>>]
  /\ sequential' = [sequential EXCEPT ![c] = FALSE]
  /\ retry' = [retry EXCEPT ![c] = FALSE]
  /\ UNCHANGED <<resolved, rejected, cacheVars, guildVars, callVars>>

NextDM ==
  \/ \E u \in Users : UserOpensDM(u)
  \/ \E id \in ChannelIDs : ChannelCreateEvent(id)
  \/ \E c \in Callers : RemoteCreateDM(c)
  \/ \E c \in Callers : RemoteRejectDM(c)
  \/ \E c \in Callers, u \in Users : DMCall(c, u)
  \/ \E c \in Callers : DMAfterGet(c)
  \/ \E c \in Callers : DMResponse(c)
  \/ \E c \in Callers : DMCreateDone(c)
  \/ \E c \in Callers : DMReturn(c)

SpecDM == Init /\ [][NextDM]_vars

-----------------------------------------------------------------------------
(* Properties of the mutation calls.  In "done" the guild cache is the one *)
(* the last segment of the call ran on.                                    *)

Holds(permission) == guildCached /\ permission \in botPerms
Dispatched == result.requests # <<>>
Rejected(error) == result.error = error /\ result.requests = <<>>
RoleOps == {"addRole", "removeRole"}

\* C1: a request of addRole or removeRole is issued only while the bot holds
\* MANAGE_ROLES, one of kick only while it holds KICK_MEMBERS; without the
\* permission (or without the guild in the cache) the call throws and issues
\* nothing.
C1_RequestImpliesPermission ==
  pc = "done" =>
    /\ (op \in RoleOps /\ Dispatched) => Holds("MANAGE_ROLES")
    /\ (op = "kick" /\ Dispatched) => Holds("KICK_MEMBERS")
    /\ (op \in RoleOps /\ ~Holds("MANAGE_ROLES")) =>
         (result.error # "none" /\ result.requests = <<>>)
    /\ (op = "kick" /\ ~Holds("KICK_MEMBERS")) =>
         (result.error # "none" /\ result.requests = <<>>)

C1_Witness ==
  /\ pc = "done"
  /\ op = "addRole"
  /\ Dispatched
  /\ result.checks = <<"MANAGE_ROLES">>

\* The hierarchy condition of a call of addRole, removeRole or kick: the bot's
\* highest role, as the call read it, is there and does not outrank the target.
RoleTooLow ==
  /\ op \in RoleOps
  /\ botsHighestRole.id # "none"
  /\ rolePosition[botsHighestRole.id] <= rolePosition[roleID]
KickTooLow ==
  /\ op = "kick"
  /\ botsHighestRole.id # "none"
  /\ membersHighestRole.id # "none"
  /\ botsHighestRole.position <= membersHighestRole.position
\* The same condition for editMember, which reads nothing: on the cache.
EditTooLow ==
  /\ op = "editMember"
  /\ \E bh \in highestRole("bot"), mh \in highestRole("member") :
       bh.id # "none" /\ mh.id # "none" /\ bh.position <= mh.position

\* C2 (as stated): whenever the bot's highest role is not above the target's,
\* addRole, removeRole, kick and editMember all throw
\* BOTS_HIGHEST_ROLE_TOO_LOW and issue no request.
C2_Original ==
  (pc = "done" /\ (RoleTooLow \/ KickTooLow \/ EditTooLow)) =>
    Rejected("BOTS_HIGHEST_ROLE_TOO_LOW")

\* C2 (amended): whenever the bot's highest role is not above the target's
\* (equal positions included), addRole, removeRole and kick throw
\* BOTS_HIGHEST_ROLE_TOO_LOW and issue no request.
C2_HierarchyBlocks ==
  (pc = "done" /\ (RoleTooLow \/ KickTooLow)) =>
    Rejected("BOTS_HIGHEST_ROLE_TOO_LOW")

C2_Witness ==
  /\ pc = "done"
  /\ op = "kick"
  /\ botsHighestRole.id # "none"
  /\ botsHighestRole.position = membersHighestRole.position
  /\ Holds("KICK_MEMBERS")
  /\ Rejected("BOTS_HIGHEST_ROLE_TOO_LOW")

\* C3: a request of addRole, removeRole or kick is issued only if the bot has
\* a highest role and its position is strictly above the target's, an
\* undefined highest role of the target member counting as the lowest rank.
C3_RequestImpliesHigherRole ==
  (pc = "done" /\ op \in RoleOps \cup {"kick"} /\ Dispatched) =>
    /\ botsHighestRole.id # "none"
    /\ op \in RoleOps => rolePosition[botsHighestRole.id] > rolePosition[roleID]
    /\ op = "kick" => botsHighestRole.position > membersHighestRole.position

Carries(field) == Dispatched /\ result.requests[1].body[field] # NoOptions[field]

\* C4: a patch of editMember that carries a nickname, a role list, a mute
\* flag or a deafen flag, of whatever value, is sent only while the bot holds
\* the permission of that field.
C4_ProvidedFieldAuthorized ==
  (pc = "done" /\ op = "editMember") =>
    /\ Carries("nick") => Holds("MANAGE_NICKNAMES")
    /\ Carries("roles") => Holds("MANAGE_ROLES")
    /\ Carries("mute") => Holds("MUTE_MEMBERS")
    /\ Carries("deaf") => Holds("DEAFEN_MEMBERS")

\* C5: editMember with a nickname of more than 32 characters throws
\* NICKNAMES_MAX_LENGTH with botHasPermission never called and no request
\* issued, whatever else the options hold.
C5_LongNickRejectedFirst ==
  (pc = "done" /\ op = "editMember" /\ options.nick.given /\ options.nick.length > NICK_MAX) =>
    /\ Rejected("NICKNAMES_MAX_LENGTH")
    /\ result.checks = <<>>

C5_Witness ==
  /\ pc = "done"
  /\ op = "editMember"
  /\ options.nick.length = NICK_MAX + 1
  /\ options.roles = "[r1]"
  /\ options.mute = "true"
  /\ botPerms = {}
  /\ Rejected("NICKNAMES_MAX_LENGTH")
  /\ result.checks = <<>>

\* A pre-check of editMember fails on the cache the call ran on.
PreCheckFails ==
  \/ NickTruthy(options.nick) /\ options.nick.length > NICK_MAX
  \/ NickTruthy(options.nick) /\ ~Holds("MANAGE_NICKNAMES")
  \/ RolesTruthy(options.roles) /\ ~Holds("MANAGE_ROLES")
  \/ FlagTruthy(options.mute) /\ ~Holds("MUTE_MEMBERS")
  \/ FlagTruthy(options.deaf) /\ ~Holds("DEAFEN_MEMBERS")

\* The options {nick: "ok", mute: true} while the bot holds MANAGE_NICKNAMES
\* and not MUTE_MEMBERS.
NickOkMuteDenied ==
  /\ options = [NoOptions EXCEPT !.nick = Nick(2), !.mute = "true"]
  /\ Holds("MANAGE_NICKNAMES")
  /\ ~Holds("MUTE_MEMBERS")

\* C6: when a pre-check of editMember fails, the call throws and no patch is
\* sent, whichever fields passed; {nick: "ok", mute: true} without
\* MUTE_MEMBERS throws MISSING_MUTE_MEMBERS.
C6_AllOrNothing ==
  (pc = "done" /\ op = "editMember") =>
    /\ PreCheckFails => (result.error # "none" /\ result.requests = <<>>)
    /\ NickOkMuteDenied => Rejected("MISSING_MUTE_MEMBERS")

C6_Witness ==
  /\ pc = "done"
  /\ op = "editMember"
  /\ NickOkMuteDenied
  /\ Rejected("MISSING_MUTE_MEMBERS")

-----------------------------------------------------------------------------
(* Properties of sendDirectMessage, under SpecDM *)

\* C7: a call of sendDirectMessage for a user that starts after a call for
\* the same user has completed, with no other call in flight, finds the
\* entry under the user's id and issues no creation request; no call issues
\* more than one.
C7_SecondCallCreatesNothing ==
  \A c \in Callers :
    /\ posts[c] <= 1
    /\ sequential[c] => (posts[c] = 0 /\ ~missed[c])

C7_Witness ==
  \E c \in Callers :
    /\ sequential[c]
    /\ dmpc[c] = "done"
    /\ posts[c] = 0
    /\ sentTo[c] = <<ChannelOf(memberID[c])>>

\* C8: once a call for a user has completed after a miss, the channel is in
\* the cache under the user's id and not under its own id, whenever the
\* CHANNEL_CREATE event was delivered.
C8_OneEntryAfterMiss ==
  \A u \in resolved :
    /\ channels[u] = ChannelOf(u)
    /\ channels[ChannelOf(u)] = "none"

\* C9: every call that observed a miss issues its own creation request,
\* whatever other calls for the same user have in flight.
C9_EveryMissCreates ==
  \A c \in Callers :
    (missed[c] /\ dmpc[c] \in {"post", "response", "create", "done"}) => posts[c] = 1

\* Two calls for one user that both missed, each with its creation request
\* issued, neither having written the cache yet.
C9_Witness ==
  \E c, d \in Callers :
    /\ c # d
    /\ memberID[c] = memberID[d]
    /\ \A e \in {c, d} : missed[e] /\ posts[e] = 1 /\ dmpc[e] \in {"post", "response"}
    /\ channels[memberID[c]] = "none"

Steady == pendingEvents = {} /\ \A c \in Callers : dmpc[c] = "idle"

\* C10: with no call in flight and no event pending, the cache holds a
\* user's DM channel under at most one key.
C10_SteadyAtMostOneEntry ==
  Steady => \A u \in Users : Cardinality({k \in Keys : channels[k] = ChannelOf(u)}) <= 1

\* A step of the call of caller c.
DMStep(c) == dmpc'[c] # dmpc[c]

\* C11: a call of sendDirectMessage whose lookup hit issues no creation
\* request and writes nothing to the channel cache; it goes from the lookup
\* straight to sendMessage, with the id of the entry found under the user's id.
C11_HitLeavesCacheAlone ==
  [][\A c \in Callers :
       (DMStep(c) /\ dmpc[c] = "get" /\ ~missed[c]) =>
         /\ channels' = channels
         /\ posts'[c] = 0
         /\ dmpc'[c] = "done"
         /\ sentTo'[c] = <<channels[memberID[c]]>>]_vars

\* A hit while another call for the same user is still being resolved.
C11_Witness ==
  \E c, d \in Callers :
    /\ c # d
    /\ dmpc[c] = "done" /\ ~missed[c] /\ posts[c] = 0
    /\ sentTo[c] = <<ChannelOf(memberID[c])>>
    /\ memberID[d] = memberID[c] /\ dmpc[d] = "create"

-----------------------------------------------------------------------------
(* Further properties of the mutation calls, under Spec *)

Fields == {"nick", "roles", "mute", "deaf"}
PermissionOf(field) ==
  CASE field = "nick" -> "MANAGE_NICKNAMES"
    [] field = "roles" -> "MANAGE_ROLES"
    [] field = "mute" -> "MUTE_MEMBERS"
    [] field = "deaf" -> "DEAFEN_MEMBERS"
MissingError(permission) ==
  CASE permission = "MANAGE_NICKNAMES" -> "MISSING_MANAGE_NICKNAMES"
    [] permission = "MANAGE_ROLES" -> "MISSING_MANAGE_ROLES"
    [] permission = "MUTE_MEMBERS" -> "MISSING_MUTE_MEMBERS"
    [] permission = "DEAFEN_MEMBERS" -> "MISSING_DEAFEN_MEMBERS"
    [] permission = "KICK_MEMBERS" -> "MISSING_KICK_MEMBERS"
Checked == {result.checks[i] : i \in 1..Len(result.checks)}
NickOnly ==
  /\ options.nick.given
  /\ options.roles = "undefined" /\ options.mute = "undefined" /\ options.deaf = "undefined"

\* C12: editMember never calls botHasPermission for the permission of a field
\* that is not given, and never throws that permission's error; with only a
\* nickname given it asks for MANAGE_NICKNAMES at most, and whether the patch
\* is sent depends on the nickname and on MANAGE_NICKNAMES alone.
C12_AbsentFieldsNotChecked ==
  (pc = "done" /\ op = "editMember") =>
    /\ \A f \in Fields :
         options[f] = NoOptions[f] =>
           /\ PermissionOf(f) \notin Checked
           /\ result.error # MissingError(PermissionOf(f))
    /\ NickOnly =>
         /\ Checked \subseteq {"MANAGE_NICKNAMES"}
         /\ Dispatched <=>
              \/ ~NickTruthy(options.nick)
              \/ options.nick.length <= NICK_MAX /\ Holds("MANAGE_NICKNAMES")

\* A nickname-only patch goes out while the bot holds MANAGE_NICKNAMES and
\* nothing else.
C12_Witness ==
  /\ pc = "done"
  /\ op = "editMember"
  /\ NickOnly
  /\ options.nick.length = 2
  /\ botPerms = {"MANAGE_NICKNAMES"}
  /\ Dispatched
  /\ result.checks = <<"MANAGE_NICKNAMES">>

FieldTruthy(field) ==
  CASE field = "nick" -> NickTruthy(options.nick)
    [] field = "roles" -> RolesTruthy(options.roles)
    [] field = "mute" -> FlagTruthy(options.mute)
    [] field = "deaf" -> FlagTruthy(options.deaf)

\* addRole with the bot's highest role above the target role and
\* MANAGE_ROLES missing.
AboveButNotPermitted ==
  /\ op = "addRole"
  /\ guildCached
  /\ botsHighestRole.id # "none"
  /\ rolePosition[botsHighestRole.id] > rolePosition[roleID]
  /\ "MANAGE_ROLES" \notin botPerms

\* C13: a call that throws issues no request and throws the error of the
\* check that failed: BOTS_HIGHEST_ROLE_TOO_LOW for the hierarchy check,
\* MISSING_MANAGE_ROLES (addRole, removeRole, editMember roles),
\* MISSING_KICK_MEMBERS (kick), MISSING_MANAGE_NICKNAMES, MISSING_MUTE_MEMBERS,
\* MISSING_DEAFEN_MEMBERS and NICKNAMES_MAX_LENGTH (editMember); addRole with
\* the bot's role above the target and MANAGE_ROLES missing throws
\* MISSING_MANAGE_ROLES.
C13_SpecificErrors ==
  pc = "done" =>
    /\ result.error # "none" => result.requests = <<>>
    /\ op \in RoleOps =>
         /\ result.error = "BOTS_HIGHEST_ROLE_TOO_LOW" <=> RoleTooLow
         /\ result.error = "MISSING_MANAGE_ROLES" <=> (~RoleTooLow /\ ~Holds("MANAGE_ROLES"))
         /\ result.error = "none" <=> (~RoleTooLow /\ Holds("MANAGE_ROLES"))
    /\ op = "kick" =>
         /\ result.error = "BOTS_HIGHEST_ROLE_TOO_LOW" <=> KickTooLow
         /\ result.error = "MISSING_KICK_MEMBERS" <=> (~KickTooLow /\ ~Holds("KICK_MEMBERS"))
         /\ result.error = "none" <=> (~KickTooLow /\ Holds("KICK_MEMBERS"))
    /\ op = "editMember" =>
         /\ result.error \in {"none", "NICKNAMES_MAX_LENGTH"}
                               \cup {MissingError(PermissionOf(f)) : f \in Fields}
         /\ result.error = "NICKNAMES_MAX_LENGTH" =>
              (NickTruthy(options.nick) /\ options.nick.length > NICK_MAX)
         /\ \A f \in Fields :
              result.error = MissingError(PermissionOf(f)) =>
                (FieldTruthy(f) /\ ~Holds(PermissionOf(f)))
    /\ AboveButNotPermitted => Rejected("MISSING_MANAGE_ROLES")

C13_Witness ==
  /\ pc = "done"
  /\ AboveButNotPermitted
  /\ botsHighestRole.position = MaxPos
  /\ Rejected("MISSING_MANAGE_ROLES")

\* The fields editMember asks a permission for, in the order of its tests.
Asked == SelectSeq(<<"nick", "roles", "mute", "deaf">>, FieldTruthy)
AskedPermissions == [i \in 1..Len(Asked) |-> PermissionOf(Asked[i])]
Denied == {i \in 1..Len(Asked) : ~Holds(AskedPermissions[i])}
FirstDenied == CHOOSE i \in Denied : \A j \in Denied : i <= j

\* C15: addRole, removeRole and kick compare the roles before they ask for
\* the permission: with the bot's role too low they throw
\* BOTS_HIGHEST_ROLE_TOO_LOW without a botHasPermission call, also when the
\* permission is missing too.  editMember tests the nickname's length, then
\* MANAGE_NICKNAMES, MANAGE_ROLES, MUTE_MEMBERS, DEAFEN_MEMBERS, throws at the
\* first test that fails and makes no later one.
C15_FirstFailingCheck ==
  pc = "done" =>
    /\ op \in RoleOps =>
         IF RoleTooLow
         THEN Rejected("BOTS_HIGHEST_ROLE_TOO_LOW") /\ result.checks = <<>>
         ELSE result.checks = <<"MANAGE_ROLES">>
    /\ op = "kick" =>
         IF KickTooLow
         THEN Rejected("BOTS_HIGHEST_ROLE_TOO_LOW") /\ result.checks = <<>>
         ELSE result.checks = <<"KICK_MEMBERS">>
    /\ op = "editMember" =>
         IF NickTruthy(options.nick) /\ options.nick.length > NICK_MAX
         THEN Rejected("NICKNAMES_MAX_LENGTH") /\ result.checks = <<>>
         ELSE IF Denied # {}
         THEN /\ Rejected(MissingError(AskedPermissions[FirstDenied]))
              /\ result.checks = SubSeq(AskedPermissions, 1, FirstDenied)
         ELSE Dispatched /\ result.checks = AskedPermissions

\* kick with the bot's role too low and KICK_MEMBERS missing.
C15_Witness ==
  /\ pc = "done"
  /\ KickTooLow
  /\ ~Holds("KICK_MEMBERS")
  /\ Rejected("BOTS_HIGHEST_ROLE_TOO_LOW")
  /\ result.checks = <<>>

C17_FailedCreateLeavesNoTrace ==
  [][\A c \in Callers :
       /\ (DMStep(c) /\ dmpc[c] = "response" /\ failed[c]) =>
            /\ dmpc'[c] = "done"
            /\ failed'[c]
            /\ UNCHANGED <<channels, resolved>>
       /\ (DMStep(c) /\ (dmpc[c] \in {"idle", "get", "post"} \/ failed[c])) =>
            UNCHANGED channels
       /\ failed'[c] => (sentTo'[c] = <<>> /\ posts'[c] = 1)
       /\ retry'[c] =>
            /\ missed'[c]
            /\ dmpc'[c] \in {"post", "response", "create", "done"} => posts'[c] = 1]_vars

\* One call has ended with the failure, and a later call for the same user
\* has missed and issued its own creation request.
C17_Witness ==
  \E c, d \in Callers :
    /\ dmpc[d] = "done" /\ failed[d] /\ sentTo[d] = <<>>
    /\ memberID[c] = memberID[d]
    /\ channels[memberID[d]] = "none"
    /\ retry[c] /\ missed[c] /\ dmpc[c] = "post" /\ posts[c] = 1

\* C18: in sendDirectMessage the creation request is issued only after a
\* lookup that missed; the entry under the channel's id is deleted in the
\* step that receives the answer, the entry under the user's id is set in the
\* step after it, and the message is sent in that step or, on a hit, in the
\* step after the lookup, never earlier; a call that ends without a failure
\* has sent exactly one message, to the id stored under the user's id (the
\* id the creation request returned, on a miss).
C18_StepOrder ==
  [][\A c \in Callers :
       /\ posts'[c] # posts[c] /\ posts'[c] # 0 =>
            dmpc[c] = "get" /\ missed[c] /\ posts'[c] = 1
       /\ (DMStep(c) /\ memberID[c] \in Users
           /\ channels'[ChannelOf(memberID[c])] # channels[ChannelOf(memberID[c])]) =>
            /\ dmpc[c] = "response" /\ dmpc'[c] = "create" /\ posts[c] = 1
            /\ channels'[ChannelOf(memberID[c])] = "none"
            /\ channels'[memberID[c]] = channels[memberID[c]]
            /\ sentTo'[c] = <<>>
       /\ (DMStep(c) /\ memberID[c] \in Users /\ channels'[memberID[c]] # channels[memberID[c]]) =>
            /\ dmpc[c] = "create" /\ dmpc'[c] = "done"
            /\ channels'[memberID[c]] = ChannelOf(memberID[c])
       /\ sentTo'[c] # sentTo[c] /\ sentTo'[c] # <<>> =>
            /\ sentTo[c] = <<>>
            /\ dmpc'[c] = "done"
            /\ dmpc[c] = IF missed[c] THEN "create" ELSE "get"
       /\ (dmpc'[c] = "done" /\ ~failed'[c]) =>
            /\ sentTo'[c] = <<channels'[memberID'[c]]>>
            /\ missed'[c] => sentTo'[c] = <<ChannelOf(memberID'[c])>>]_vars

\* A call that missed has gone through the request, the delete and the set,
\* and has sent its one message to the channel now stored under the user's
\* id, the entry under the channel's id being gone.
C18_Witness ==
  \E c \in Callers :
    /\ dmpc[c] = "done" /\ missed[c] /\ ~failed[c] /\ posts[c] = 1
    /\ sentTo[c] = <<ChannelOf(memberID[c])>>
    /\ channels[memberID[c]] = ChannelOf(memberID[c])
    /\ channels[ChannelOf(memberID[c])] = "none"
    /\ ChannelOf(memberID[c]) \notin pendingEvents
    /\ memberID[c] \in remoteDM

\* The scheduler resumes a call whose awaited highestRole has resolved.
SpecFair ==
  /\ Spec
  /\ WF_vars(AddRoleResume)
  /\ WF_vars(RemoveRoleResume)
  /\ WF_vars(KickSecondRead)
  /\ WF_vars(KickResume)

Suspended == pc \in {"addRole", "removeRole", "kick1", "kick2"}
Method == [addRole |-> "PUT", removeRole |-> "DELETE", kick |-> "DELETE", editMember |-> "PATCH"]
Resource ==
  [addRole |-> "GUILD_MEMBER_ROLE", removeRole |-> "GUILD_MEMBER_ROLE",
   kick |-> "GUILD_MEMBER", editMember |-> "GUILD_MEMBER"]
OneOutcome ==
  /\ pc # "done" => result = NoResult
  /\ pc = "done" =>
       \/ result.error # "none" /\ result.requests = <<>>
       \/ /\ result.error = "none"
          /\ Len(result.requests) = 1
          /\ result.requests[1].method = Method[op]
          /\ result.requests[1].resource = Resource[op]
          /\ \A i \in 1..Len(result.checks) : Holds(result.checks[i])

\* C19: a call of addRole, removeRole, kick or editMember ends either with
\* an error and no request, or with no error and exactly one request (PUT
\* role of member, DELETE role of member, DELETE member, PATCH member) after
\* every permission it asked for was held; until it ends it has issued
\* nothing; and, the scheduler being fair, a suspended call does end.
C19_OneOutcomeAndEnds ==
  /\ []OneOutcome
  /\ Suspended ~> pc = "done"

\* A kick that was suspended twice has ended with its one DELETE request; the
\* bot's role read first, the member's second, both present.
C19_Witness ==
  /\ pc = "done" /\ op = "kick"
  /\ botsHighestRole.id # "none" /\ membersHighestRole.id # "none"
  /\ result.error = "none"
  /\ result.requests = <<Request("DELETE", "GUILD_MEMBER", "none", NoOptions)>>

-----------------------------------------------------------------------------
(* The mutation calls and sendDirectMessage side by side.  The two share   *)
(* no variable: a step of one is the same step in every state of the       *)
(* other, so each is run from the other's initial state.                   *)

MemberQuiet == ~guildCached /\ pc = "idle"
DMQuiet ==
  /\ remoteDM = {} /\ pendingEvents = {} /\ resolved = {} /\ rejected = {}
  /\ \A k \in Keys : channels[k] = "none"
  /\ \A c \in Callers : dmpc[c] = "idle"

NextAll ==
  \/ DMQuiet /\ GuildCreate
  \/ DMQuiet /\ GuildDelete
  \/ DMQuiet /\ GuildMemberUpdate
  \/ DMQuiet /\ GuildRoleUpdate
  \/ DMQuiet /\ AddRoleCall
  \/ DMQuiet /\ AddRoleResume
  \/ DMQuiet /\ RemoveRoleCall
  \/ DMQuiet /\ RemoveRoleResume
  \/ DMQuiet /\ KickCall
  \/ DMQuiet /\ KickSecondRead
  \/ DMQuiet /\ KickResume
  \/ DMQuiet /\ EditMember
  \/ DMQuiet /\ Return
  \/ MemberQuiet /\ \E u \in Users : UserOpensDM(u)
  \/ MemberQuiet /\ \E id \in ChannelIDs : ChannelCreateEvent(id)
  \/ MemberQuiet /\ \E c \in Callers : RemoteCreateDM(c)
  \/ MemberQuiet /\ \E c \in Callers : RemoteRejectDM(c)
  \/ MemberQuiet /\ \E c \in Callers, u \in Users : DMCall(c, u)
  \/ MemberQuiet /\ \E c \in Callers : DMAfterGet(c)
  \/ MemberQuiet /\ \E c \in Callers : DMResponse(c)
  \/ MemberQuiet /\ \E c \in Callers : DMCreateDone(c)
  \/ MemberQuiet /\ \E c \in Callers : DMReturn(c)

SpecAll == Init /\ [][NextAll]_vars

\* C14: a step of addRole, removeRole, kick or editMember writes neither the
\* guild cache nor the channel cache; a step of sendDirectMessage leaves the
\* guild cache alone; and an entry of the channels table changes only in the
\* CHANNEL_CREATE handler or in a step of a sendDirectMessage call, there
\* under that call's memberID or the id of the channel created for it.
C14_OnlyDMWritesCache ==
  [][/\ pc' # pc => UNCHANGED <<guildVars, cacheVars>>
     /\ (\E c \in Callers : DMStep(c)) => UNCHANGED guildVars
     /\ \A k \in Keys :
          channels'[k] # channels[k] =>
            \/ k \in pendingEvents /\ k \notin pendingEvents'
            \/ \E c \in Callers :
                 /\ DMStep(c)
                 /\ dmpc[c] \in {"response", "create"}
                 /\ k \in {memberID[c], ChannelOf(memberID[c])}]_vars

\* A kick went out and the member is still in the cache with its roles.
C14_Witness ==
  /\ pc = "done"
  /\ op = "kick"
  /\ Dispatched
  /\ guildCached
  /\ memberRoles["member"] # {}

====
